---- MODULE Spec2Model ----
(***************************************************************************)
(* A model of the blog-post REST API: the Post schema (models/Post.js) and *)
(* the five handlers of controllers/postController.js over a document      *)
(* store.  Strings are sequences of one-character strings, so that trim    *)
(* and the length validators are computed, not assumed.                    *)
(***************************************************************************)
EXTENDS Integers, Sequences, FiniteSets, Bags, TLC

(* ------------------------------ bounds -------------------------------- *)

\* Posts created in a run of Spec (ids are 1..MaxPosts).
MaxPosts == 2
\* Posts created in a run of SpecValidation.
MaxValidated == 1
\* Largest reading of the millisecond clock in Spec and SpecValidation.
MaxTime == 1
\* Posts created in a run of SpecConcurrent, and the Updates it has in flight.
MaxContended == 1
MaxInFlight == 2
\* Posts created in a run of SpecList, and the largest reading of its clock.
MaxListed == 3
MaxListTime == 2
\* Posts created in a run of SpecRouter.
MaxRouted == 1
\* Posts created in a run of SpecListRace.
MaxRaced == 2

(* ------------------------- schema constants --------------------------- *)

TitleMinLen == 3
TitleMaxLen == 100
ContentMinLen == 10
AuthorMinLen == 2
AuthorMaxLen == 50
DefaultPage == 1
DefaultLimit == 10

(* ------------------------------ strings ------------------------------- *)

Rep(c, n) == [i \in 1..n |-> c]

Pad(s) == <<" ">> \o s \o <<" ">>

RECURSIVE TrimLeft(_)
TrimLeft(s) == IF s # <<>> /\ Head(s) = " " THEN TrimLeft(Tail(s)) ELSE s

RECURSIVE TrimRight(_)
TrimRight(s) ==
    IF s # <<>> /\ s[Len(s)] = " " THEN TrimRight(SubSeq(s, 1, Len(s) - 1)) ELSE s

\* String.prototype.trim, as the schema option trim: true applies it.
Trim(s) == TrimRight(TrimLeft(s))

(* --------------------------- request values --------------------------- *)

\* A body field is undefined (absent from the JSON), null, or a string.
Absent == [kind |-> "absent", val |-> <<>>]
Null == [kind |-> "null", val |-> <<>>]
Str(s) == [kind |-> "str", val |-> s]

Paths == {"title", "content", "author"}

FalsyUndefined(v) == v.kind = "absent"

\* !value of JavaScript: undefined, null and the empty string are falsy.
Falsy(v) == v.kind # "str" \/ v.val = <<>>

(* ------------------------------ schema -------------------------------- *)

CastNoTrim(v) == v

\* The String setter of a path with trim: true; null and undefined pass through.
CastTrim(v) == IF v.kind = "str" THEN Str(Trim(v.val)) ELSE v

postSchema ==
    [title   |-> [required |-> "Title is required",
                  minlength |-> TitleMinLen,
                  minmsg |-> "Title must be at least 3 characters long",
                  hasmax |-> TRUE,
                  maxlength |-> TitleMaxLen,
                  maxmsg |-> "Title cannot exceed 100 characters"],
     content |-> [required |-> "Content is required",
                  minlength |-> ContentMinLen,
                  minmsg |-> "Content must be at least 10 characters long",
                  hasmax |-> FALSE,
                  maxlength |-> 0,
                  maxmsg |-> ""],
     author  |-> [required |-> "Author name is required",
                  minlength |-> AuthorMinLen,
                  minmsg |-> "Author name must be at least 2 characters long",
                  hasmax |-> TRUE,
                  maxlength |-> AuthorMaxLen,
                  maxmsg |-> "Author name cannot exceed 50 characters"]]

PathErrorNoMax(p, v) ==
    LET s == postSchema[p] IN
    IF v.kind # "str" \/ Len(v.val) = 0 THEN s.required
    ELSE IF Len(v.val) < s.minlength THEN s.minmsg
    ELSE ""

\* The validators of one path, run on the cast value: required first, then
\* minlength, then maxlength; the first failure is the path's message, ""
\* when the value passes.
PathError(p, v) ==
    LET s == postSchema[p] IN
    IF v.kind # "str" \/ Len(v.val) = 0 THEN s.required
    ELSE IF Len(v.val) < s.minlength THEN s.minmsg
    ELSE IF s.hasmax /\ Len(v.val) > s.maxlength THEN s.maxmsg
    ELSE ""

\* error.errors of a ValidationError: the messages of the failing paths among ps
\* of the cast body.
ValidationErrors(body, ps) ==
    LET msg == [p \in ps |-> PathError(p, CastTrim(body[p]))]
    IN  {msg[p] : p \in {q \in ps : msg[q] # ""}}

(* ------------------------------- state -------------------------------- *)

VARIABLES
    store,      \* the posts collection: a function from the ids present to documents
    nextId,     \* the next ObjectId the store hands out
    now,        \* the clock Date.now() reads
    resp,       \* the response of the request handled last
    access,     \* the store calls the request handled last has made, in order
    ever,       \* history: every id a document was inserted under
    deleted,    \* history: every id whose Delete responded 200
    inflight,   \* the bag of Updates awaiting findByIdAndUpdate
    listing     \* the Lists awaiting countDocuments, each with the posts it found

vars == <<store, nextId, now, resp, access, ever, deleted, inflight, listing>>

\* An id no ObjectId parses from ("abc"): mongoose.Types.ObjectId.isValid is false.
BadId == 0

isValidAny(id) == TRUE

isValid(id) == id >= 1

\* The JSON of a document (toJSON: _id is given out as id).
toJSON(id, doc) ==
    [id |-> id, title |-> doc.title, content |-> doc.content, author |-> doc.author,
     createdAt |-> doc.createdAt, updatedAt |-> doc.updatedAt]

Response(op, status, message, errors, data) ==
    [op |-> op, status |-> status, message |-> message, errors |-> errors,
     data |-> data, count |-> 0, total |-> 0, page |-> 0, pages |-> 0]

NoResponse == Response("none", 0, "", {}, <<>>)

\* What a handler leaves behind: the store, the id counter, the response it
\* sent and the store calls it made.
Outcome(st, nid, r, acc) == [store |-> st, nextId |-> nid, resp |-> r, access |-> acc]

Call(name, id) == [call |-> name, id |-> id]

(* ------------------------------ createPost ---------------------------- *)

\* The document Post.create builds from a body: the paths cast, both
\* timestamps set to the current time.
NewDoc(body, t) ==
    [title |-> CastTrim(body.title).val, content |-> CastTrim(body.content).val,
     author |-> CastTrim(body.author).val, createdAt |-> t, updatedAt |-> t]

NewIdReused(st, nid) == CHOOSE i \in 1..nid : i \notin DOMAIN st /\ \A j \in 1..(i - 1) : j \in DOMAIN st

\* The _id of a new document: a fresh ObjectId.
NewId(st, nid) == nid

Insert(st, id, doc) == [i \in DOMAIN st \cup {id} |-> IF i = id THEN doc ELSE st[i]]

MissingFields ==
    Response("create", 400,
             "Please provide all required fields: title, content, and author", {}, <<>>)

ValidationFailed(op, errors) == Response(op, 400, "Validation failed", errors, <<>>)

createPost(st, nid, t, body) ==
    IF Falsy(body.title) \/ Falsy(body.content) \/ Falsy(body.author)
    THEN Outcome(st, nid, MissingFields, <<>>)
    ELSE LET errors == ValidationErrors(body, Paths)
             post == NewDoc(body, t)
         IN  IF errors # {}
             THEN Outcome(st, nid, ValidationFailed("create", errors), <<>>)
             ELSE Outcome(Insert(st, NewId(st, nid), post), nid + 1,
                          Response("create", 201, "Post created successfully", {},
                                   <<toJSON(NewId(st, nid), post)>>),
                          <<Call("insertOne", NewId(st, nid))>>)

(* ------------------------------ getPostById --------------------------- *)

InvalidId(op) == Response(op, 400, "Invalid post ID format", {}, <<>>)

NotFound(op) == Response(op, 404, "Post not found", {}, <<>>)

getPostById(st, nid, id) ==
    IF ~isValid(id)
    THEN Outcome(st, nid, InvalidId("get"), <<>>)
    ELSE IF id \notin DOMAIN st
    THEN Outcome(st, nid, NotFound("get"), <<Call("findOne", id)>>)
    ELSE Outcome(st, nid, Response("get", 200, "", {}, <<toJSON(id, st[id])>>),
                 <<Call("findOne", id)>>)

(* ------------------------------ updatePost ---------------------------- *)

updateDataTruthy(body) == {p \in Paths : ~Falsy(body[p])}

\* updateData: the paths of the body that are not undefined.
updateData(body) == {p \in Paths : body[p].kind # "absent"}

ApplySetTitleFirst(doc, body, ps, t) ==
    [title     |-> IF "title" \in ps THEN CastTrim(body.title).val ELSE doc.title,
     content   |-> IF "content" \in ps /\ "title" \notin ps
                   THEN CastTrim(body.content).val ELSE doc.content,
     author    |-> IF "author" \in ps /\ "title" \notin ps
                   THEN CastTrim(body.author).val ELSE doc.author,
     createdAt |-> doc.createdAt,
     updatedAt |-> t]

ApplySetWhole(doc, body, ps, t) ==
    [title     |-> CastTrim(body.title).val,
     content   |-> CastTrim(body.content).val,
     author    |-> CastTrim(body.author).val,
     createdAt |-> doc.createdAt,
     updatedAt |-> t]

\* findOneAndUpdate's $set on a document: the given paths take the cast
\* values, updatedAt the time the update was built.
ApplySet(doc, body, ps, t) ==
    [title     |-> IF "title" \in ps THEN CastTrim(body.title).val ELSE doc.title,
     content   |-> IF "content" \in ps THEN CastTrim(body.content).val ELSE doc.content,
     author    |-> IF "author" \in ps THEN CastTrim(body.author).val ELSE doc.author,
     createdAt |-> doc.createdAt,
     updatedAt |-> t]

\* updatePost up to its await: the responses sent before the store is reached
\* (done), the update validators of findByIdAndUpdate included.
updateChecks(id, body) ==
    IF ~isValid(id)
    THEN [done |-> TRUE, resp |-> InvalidId("update")]
    ELSE IF updateData(body) = {}
    THEN [done |-> TRUE,
          resp |-> Response("update", 400, "No fields provided for update", {}, <<>>)]
    ELSE LET errors == ValidationErrors(body, updateData(body)) IN
         IF errors # {}
         THEN [done |-> TRUE, resp |-> ValidationFailed("update", errors)]
         ELSE [done |-> FALSE, resp |-> NoResponse]

updateStoreUpsert(st, nid, t, id, body) ==
    LET post == ApplySet(IF id \in DOMAIN st THEN st[id] ELSE NewDoc(body, t), body,
                         updateData(body), t)
    IN  Outcome(Insert(st, id, post), nid,
                Response("update", 200, "Post updated successfully", {}, <<toJSON(id, post)>>),
                <<Call("findOneAndUpdate", id)>>)

\* updatePost from the store's findOneAndUpdate on: the update built at time t
\* is applied in one step, and the response follows.
updateStore(st, nid, t, id, body) ==
    IF id \notin DOMAIN st
    THEN Outcome(st, nid, NotFound("update"), <<Call("findOneAndUpdate", id)>>)
    ELSE LET post == ApplySet(st[id], body, updateData(body), t) IN
         Outcome([st EXCEPT ![id] = post], nid,
                 Response("update", 200, "Post updated successfully", {},
                          <<toJSON(id, post)>>),
                 <<Call("findOneAndUpdate", id)>>)

updatePost(st, nid, t, id, body) ==
    IF updateChecks(id, body).done
    THEN Outcome(st, nid, updateChecks(id, body).resp, <<>>)
    ELSE updateStore(st, nid, t, id, body)

(* ------------------------------ deletePost ---------------------------- *)

RemoveNothing(st, id) == st

Remove(st, id) == [i \in DOMAIN st \ {id} |-> st[i]]

deletePost(st, nid, id) ==
    IF ~isValid(id)
    THEN Outcome(st, nid, InvalidId("delete"), <<>>)
    ELSE IF id \notin DOMAIN st
    THEN Outcome(st, nid, NotFound("delete"), <<Call("findOneAndDelete", id)>>)
    ELSE Outcome(Remove(st, id), nid,
                 Response("delete", 200, "Post deleted successfully", {}, <<>>),
                 <<Call("findOneAndDelete", id)>>)

(* ------------------------------ getAllPosts --------------------------- *)

Digits == <<"0", "1", "2", "3", "4", "5", "6", "7", "8", "9">>

IsDigit(c) == \E d \in 1..Len(Digits) : Digits[d] = c

DigitValue(c) == (CHOOSE d \in 1..Len(Digits) : Digits[d] = c) - 1

NaN == [nan |-> TRUE, n |-> 0]

Num(n) == [nan |-> FALSE, n |-> n]

\* The value of the longest prefix of digits of s, read in base ten.
RECURSIVE DigitsPrefix(_, _)
DigitsPrefix(s, acc) ==
    IF s # <<>> /\ IsDigit(Head(s))
    THEN DigitsPrefix(Tail(s), acc * Len(Digits) + DigitValue(Head(s)))
    ELSE acc

\* parseInt(v, 10): leading blanks are skipped, a sign is read, then digits up
\* to the first character that is none; NaN when there is no digit (and for
\* undefined).
parseInt(v) ==
    IF v.kind # "str" THEN NaN
    ELSE LET t == TrimLeft(v.val)
             signed == t # <<>> /\ Head(t) \in {"-", "+"}
             body == IF signed THEN Tail(t) ELSE t
         IN  IF body = <<>> \/ ~IsDigit(Head(body)) THEN NaN
             ELSE IF signed /\ Head(t) = "-" THEN Num(0 - DigitsPrefix(body, 0))
             ELSE Num(DigitsPrefix(body, 0))

\* x || d of JavaScript on a number: NaN and 0 are falsy.
OrDefault(x, d) == IF x.nan \/ x.n = 0 THEN d ELSE x.n

pageOf(q) == OrDefault(parseInt(q.page), DefaultPage)

limitOf(q) == OrDefault(parseInt(q.limit), DefaultLimit)

skipOf(q) == (pageOf(q) - 1) * limitOf(q)

Lower(c) == CASE c = "A" -> "a" [] c = "B" -> "b" [] OTHER -> c

\* One character of a pattern against one of a text, under $options: 'i';
\* the pattern's "." stands for any character.
CharMatches(pc, tc) == pc = "." \/ Lower(pc) = Lower(tc)

\* { $regex: pattern, $options: 'i' }: the pattern matches somewhere in the text.
RegexMatches(pattern, text) ==
    \E k \in 0..(Len(text) - Len(pattern)) :
        \A j \in 1..Len(pattern) : CharMatches(pattern[j], text[k + j])

\* The query built from req.query: the author filter and the search filter,
\* each applied only when its parameter is truthy.
Matching(st, q) ==
    {i \in DOMAIN st :
        /\ Falsy(q.author) \/ RegexMatches(q.author.val, st[i].author)
        /\ Falsy(q.search) \/ RegexMatches(q.search.val, st[i].title)
                           \/ RegexMatches(q.search.val, st[i].content)}

\* The first of the ids S under sort({ createdAt: -1 }): the latest createdAt,
\* and among equal ones the document inserted first (the store's natural order).
Newest(st, S) ==
    CHOOSE i \in S : \A j \in S :
        \/ st[i].createdAt > st[j].createdAt
        \/ st[i].createdAt = st[j].createdAt /\ i <= j

RECURSIVE Sorted(_, _)
Sorted(st, S) ==
    IF S = {} THEN <<>>
    ELSE <<Newest(st, S)>> \o Sorted(st, S \ {Newest(st, S)})

Abs(n) == IF n < 0 THEN 0 - n ELSE n

\* skip(s).limit(l) on a sorted result; the driver sends a negative limit as
\* its absolute value.
Page(ids, s, l) == SubSeq(ids, s + 1, IF s + Abs(l) < Len(ids) THEN s + Abs(l) ELSE Len(ids))

\* Math.ceil(total / limit), for a total >= 0 and a limit other than 0.
Ceil(total, limit) ==
    IF limit > 0 THEN (total + limit - 1) \div limit
    ELSE 0 - (total \div (0 - limit))

Listing(posts, total, page, pages) ==
    [op |-> "list", status |-> 200, message |-> "", errors |-> {}, data |-> posts,
     count |-> Len(posts), total |-> total, page |-> page, pages |-> pages]

\* The store refuses a negative skip: the catch block answers.
findFailed(st, nid) ==
    Outcome(st, nid, Response("list", 500, "Server error while fetching posts", {}, <<>>),
            <<Call("find", BadId)>>)

\* Post.find(query).sort().skip().limit(): the posts of the page.
find(st, q) ==
    LET ids == Page(Sorted(st, Matching(st, q)), skipOf(q), limitOf(q))
    IN  [k \in 1..Len(ids) |-> toJSON(ids[k], st[ids[k]])]

countDocuments(st, q) == Cardinality(Matching(st, q))

\* getAllPosts from countDocuments on, with the posts its find returned.
countAndRespond(st, nid, q, posts) ==
    Outcome(st, nid,
            Listing(posts, countDocuments(st, q), pageOf(q),
                    Ceil(countDocuments(st, q), limitOf(q))),
            <<Call("find", BadId), Call("countDocuments", BadId)>>)

getAllPosts(st, nid, q) ==
    IF skipOf(q) < 0
    THEN findFailed(st, nid)
    ELSE countAndRespond(st, nid, q, find(st, q))

(* ------------------------------- inputs ------------------------------- *)

TitleA == Str(Pad(Rep("a", TitleMinLen)))
TitleB == Str(Pad(Rep("b", TitleMaxLen)))
ContentA == Str(Pad(Rep("a", ContentMinLen)))
ContentB == Str(Rep("b", ContentMinLen + 1))
AuthorA == Str(Pad(Rep("a", AuthorMinLen)))
AuthorB == Str(Pad(Rep("b", AuthorMaxLen)))

TitleInputs ==
    {Absent, Null, Str(<<>>), Str(Rep(" ", TitleMinLen)),
     Str(Rep("a", TitleMinLen - 1)), TitleA, TitleB, Str(Rep("a", TitleMaxLen + 1))}

ContentInputs ==
    {Absent, Null, Str(<<>>), Str(Rep(" ", ContentMinLen)),
     Str(Rep("a", ContentMinLen - 1)), ContentA}

AuthorInputs ==
    {Absent, Null, Str(<<>>), Str(Rep(" ", AuthorMinLen)),
     Str(Rep("a", AuthorMinLen - 1)), AuthorA, AuthorB, Str(Rep("a", AuthorMaxLen + 1))}

Body(t, c, a) == [title |-> t, content |-> c, author |-> a]

TitleShort == Str(Rep("a", TitleMinLen - 1))
TitleLong == Str(Rep("a", TitleMaxLen + 1))
ContentShort == Str(Rep("a", ContentMinLen - 1))
AuthorLong == Str(Rep("a", AuthorMaxLen + 1))
AuthorBlank == Str(Rep(" ", AuthorMinLen))

\* Bodies that break the constraints of several fields at once.
BadBodies ==
    {Body(TitleShort, ContentShort, AuthorLong), Body(TitleLong, ContentA, AuthorBlank),
     Body(Null, Null, Null)}

\* The bodies POSTed: every value of one field beside two valid ones.
CreateBodies ==
    {Body(t, ContentA, AuthorA) : t \in TitleInputs}
    \cup {Body(TitleA, c, AuthorA) : c \in ContentInputs}
    \cup {Body(TitleA, ContentA, a) : a \in AuthorInputs}
    \cup BadBodies

\* The bodies PUT: every value of one field alone, and some of several fields.
UpdateBodies ==
    {Body(t, Absent, Absent) : t \in TitleInputs}
    \cup {Body(Absent, c, Absent) : c \in ContentInputs}
    \cup {Body(Absent, Absent, a) : a \in AuthorInputs}
    \cup {Body(TitleA, ContentA, AuthorA), Body(TitleB, ContentA, Absent)}
    \cup BadBodies

\* The bodies of Spec: two valid titles, one valid content and author.
ThinBodies ==
    {Body(t, c, a) : t \in {Absent, TitleA, TitleB}, c \in {Absent, ContentA},
                     a \in {Absent, AuthorA}}

\* Every body the properties range over: the bodies sent and bodies that change
\* the content or several fields of a post.
Bodies ==
    CreateBodies \cup UpdateBodies \cup ThinBodies
    \cup {Body(TitleA, ContentB, AuthorB), Body(Absent, ContentB, Absent),
          Body(TitleB, ContentB, Absent), Body(Absent, ContentB, AuthorB)}

\* The bodies of SpecList: one title and content, two authors.
ListBodies == {Body(TitleA, ContentA, a) : a \in {AuthorA, AuthorB}}

Query(p, l, a, q) == [page |-> p, limit |-> l, author |-> a, search |-> q]

PageParams ==
    {Absent, Str(<<"a", "b">>), Str(<<"0">>), Str(<<"-", "1">>), Str(<<"1">>), Str(<<"2">>),
     Str(<<"3">>), Str(<<" ", "2", "x">>)}

LimitParams ==
    {Absent, Str(<<>>), Str(<<"0">>), Str(<<"-", "2">>), Str(<<"1">>), Str(<<"2">>),
     Str(<<"1", "0">>)}

AuthorParams == {Absent, Str(<<>>), Str(<<"B">>), Str(<<"a", ".">>)}

SearchParams == {Absent, Str(<<"A", "a">>), Str(<<"b">>)}

\* Every query the properties range over.
Queries ==
    {Query(p, l, a, q) : p \in PageParams, l \in LimitParams, a \in AuthorParams,
                         q \in SearchParams}

\* The queries sent in SpecList.
ListQueries ==
    {Query(Absent, Absent, Absent, Absent),
     Query(Str(<<"1">>), Str(<<"2">>), Absent, Absent),
     Query(Str(<<"2">>), Str(<<"2">>), Absent, Absent),
     Query(Str(<<"2">>), Str(<<"1">>), Str(<<"B">>), Absent),
     Query(Str(<<"-", "1">>), Absent, Absent, Absent),
     Query(Str(<<"0">>), Str(<<"-", "2">>), Absent, Str(<<"A", "a">>))}

\* The ids requests name when at most cap posts are created, and a malformed one.
ReqIds(cap) == (1..cap) \cup {BadId}

\* The bodies of SpecConcurrent: two Updates that both write the title, one of
\* them the content as well.
ContendedBodies == {Body(TitleB, ContentB, Absent), Body(TitleA, Absent, Absent)}

\* An Update suspended at its await: the id, the body and the time it stamped.
Pending(id, body, t) == [id |-> id, body |-> body, t |-> t]

(* ------------------------------- actions ------------------------------ *)

Init ==
    /\ store = <<>>
    /\ nextId = 1
    /\ now = 0
    /\ resp = NoResponse
    /\ access = <<>>
    /\ ever = {}
    /\ deleted = {}
    /\ inflight = EmptyBag
    /\ listing = {}

\* Time passes between requests.
Tick(maxT) ==
    /\ now < maxT
    /\ now' = now + 1
    /\ UNCHANGED <<store, nextId, resp, access, ever, deleted, inflight, listing>>

\* A handler runs to its response; the history variables follow the store.
Handle(o, id, cap) ==
    /\ o.nextId <= cap + 1
    /\ store' = o.store
    /\ nextId' = o.nextId
    /\ resp' = o.resp
    /\ access' = o.access
    /\ ever' = ever \cup (DOMAIN o.store \ DOMAIN store)
    /\ deleted' = IF o.resp.op = "delete" /\ o.resp.status = 200
                  THEN deleted \cup {id} ELSE deleted
    /\ UNCHANGED <<now, inflight, listing>>

Create(body, cap) == Handle(createPost(store, nextId, now, body), BadId, cap)

GetById(id, cap) == Handle(getPostById(store, nextId, id), id, cap)

Update(id, body, cap) == Handle(updatePost(store, nextId, now, id, body), id, cap)

Delete(id, cap) == Handle(deletePost(store, nextId, id), id, cap)

List(q, cap) == Handle(getAllPosts(store, nextId, q), BadId, cap)

\* Requests handled one after another, with few bodies and several posts.
Next ==
    \/ Tick(MaxTime)
    \/ \E body \in ThinBodies : Create(body, MaxPosts)
    \/ \E id \in ReqIds(MaxPosts) : GetById(id, MaxPosts)
    \/ \E id \in ReqIds(MaxPosts), body \in ThinBodies : Update(id, body, MaxPosts)
    \/ \E id \in ReqIds(MaxPosts) : Delete(id, MaxPosts)

Spec == Init /\ [][Next]_vars

\* Requests handled one after another, with every body at the constraints' edges.
NextValidation ==
    \/ Tick(MaxTime)
    \/ \E body \in CreateBodies : Create(body, MaxValidated)
    \/ \E id \in ReqIds(MaxValidated) : GetById(id, MaxValidated)
    \/ \E id \in ReqIds(MaxValidated), body \in UpdateBodies : Update(id, body, MaxValidated)
    \/ \E id \in ReqIds(MaxValidated) : Delete(id, MaxValidated)

SpecValidation == Init /\ [][NextValidation]_vars

\* Posts are created and listed, one request after another.
NextList ==
    \/ Tick(MaxListTime)
    \/ \E body \in ListBodies : Create(body, MaxListed)
    \/ \E q \in ListQueries : List(q, MaxListed)

SpecList == Init /\ [][NextList]_vars

\* An Update request arrives and runs up to its await: it answers at once when
\* a check fails, and otherwise its update, stamped with the present time, is
\* on its way to the store.
UpdateStart(id, body, cap) ==
    /\ BagCardinality(inflight) < MaxInFlight
    /\ IF updateChecks(id, body).done
       THEN Handle(Outcome(store, nextId, updateChecks(id, body).resp, <<>>), id, cap)
       ELSE /\ inflight' = inflight (+) SetToBag({Pending(id, body, now)})
            /\ UNCHANGED <<store, nextId, now, resp, access, ever, deleted, listing>>

\* The store applies the update u in flight and its handler responds.
UpdateCommit(u) ==
    /\ BagIn(u, inflight)
    /\ LET o == updateStore(store, nextId, u.t, u.id, u.body)
       IN  /\ store' = o.store
           /\ resp' = o.resp
           /\ access' = o.access
    /\ inflight' = inflight (-) SetToBag({u})
    /\ UNCHANGED <<nextId, now, ever, deleted, listing>>

\* Update requests overlap each other and Creates and Deletes.
NextConcurrent ==
    \/ Tick(MaxTime)
    \/ Create(Body(TitleA, ContentA, AuthorA), MaxContended)
    \/ \E id \in 1..MaxContended : Delete(id, MaxContended)
    \/ \E id \in 1..MaxContended, body \in ContendedBodies :
           UpdateStart(id, body, MaxContended)
    \/ \E u \in BagToSet(inflight) : UpdateCommit(u)

SpecConcurrent == Init /\ [][NextConcurrent]_vars

\* A List request arrives and runs up to its second await: it answers at once
\* when the find fails, and otherwise holds the posts found while
\* countDocuments is on its way to the store.
ListFind(q, cap) ==
    /\ listing = {}
    /\ IF skipOf(q) < 0
       THEN Handle(findFailed(store, nextId), BadId, cap)
       ELSE /\ listing' = {[q |-> q, posts |-> find(store, q)]}
            /\ UNCHANGED <<store, nextId, now, resp, access, ever, deleted, inflight>>

\* The store counts for the List l and its handler responds.
ListCount(l) ==
    /\ l \in listing
    /\ LET o == countAndRespond(store, nextId, l.q, l.posts)
       IN  /\ resp' = o.resp
           /\ access' = o.access
    /\ listing' = listing \ {l}
    /\ UNCHANGED <<store, nextId, now, ever, deleted, inflight>>

\* The queries sent in SpecListRace.
RacedQueries ==
    {Query(Absent, Absent, Absent, Absent),
     Query(Absent, Str(<<"1">>), Absent, Absent),
     Query(Str(<<"2">>), Str(<<"1">>), Absent, Absent),
     Query(Absent, Absent, Str(<<"B">>), Absent),
     Query(Str(<<"-", "1">>), Absent, Absent, Absent)}

\* Creates and Deletes land between the two store reads of a List.
NextListRace ==
    \/ \E body \in ListBodies : Create(body, MaxRaced)
    \/ \E id \in 1..MaxRaced : Delete(id, MaxRaced)
    \/ \E q \in RacedQueries : ListFind(q, MaxRaced)
    \/ \E l \in listing : ListCount(l)

SpecListRace == Init /\ [][NextListRace]_vars

(* ------------------------------- server ------------------------------- *)

\* A request: the path is a prefix followed by rest, the ids after it
\* ("/api/posts" with <<1>> is /api/posts/1); malformed says that its body is
\* not JSON that express.json() can parse.
Req(method, path, rest, body, query, malformed) ==
    [method |-> method, path |-> path, rest |-> rest, body |-> body,
     query |-> query, malformed |-> malformed]

RECURSIVE Segments(_)
Segments(rest) ==
    IF rest = <<>> THEN "" ELSE "/" \o ToString(rest[1]) \o Segments(Tail(rest))

originalUrl(req) == req.path \o Segments(req.rest)

\* express.json() hands a body it cannot parse to the error handler, which
\* answers with the error's status and message.
ParseFailed == Response("error", 400, "Unexpected token in JSON", {}, <<>>)

\* The CORS middleware answers every OPTIONS request itself: sendStatus(200).
Preflight == Response("options", 200, "OK", {}, <<>>)

isPreflightNever(req) == FALSE

isPreflight(req) == req.method = "OPTIONS"

\* A route registered for GET also handles HEAD when no HEAD route is
\* registered (and the response then goes out without its body).
handlesAny(verb, req) == TRUE

handles(verb, req) == req.method = verb \/ (verb = "GET" /\ req.method = "HEAD")

NoBody(o) ==
    Outcome(o.store, o.nextId, Response(o.resp.op, o.resp.status, "", {}, <<>>), o.access)

\* The routes of the router mounted at /api/posts, tried in the order they are
\* registered; matched is FALSE when none of them takes the request.
postRoutes(st, nid, t, req) ==
    LET id == IF req.rest = <<>> THEN BadId ELSE req.rest[1]
        one == Len(req.rest) = 1
        none == req.rest = <<>>
    IN  IF none /\ handles("POST", req)
        THEN [matched |-> TRUE, out |-> createPost(st, nid, t, req.body)]
        ELSE IF none /\ handles("GET", req)
        THEN [matched |-> TRUE, out |-> getAllPosts(st, nid, req.query)]
        ELSE IF one /\ handles("GET", req)
        THEN [matched |-> TRUE, out |-> getPostById(st, nid, id)]
        ELSE IF one /\ handles("PUT", req)
        THEN [matched |-> TRUE, out |-> updatePost(st, nid, t, id, req.body)]
        ELSE IF one /\ handles("DELETE", req)
        THEN [matched |-> TRUE, out |-> deletePost(st, nid, id)]
        ELSE [matched |-> FALSE, out |-> Outcome(st, nid, NoResponse, <<>>)]

health == Response("health", 200, "Server is running", {}, <<>>)

apiInfo == Response("api", 200, "Welcome to the Blog API", {}, <<>>)

RouteNotFound(req) ==
    Response("notFound", 404,
             "Route " \o req.method \o " " \o originalUrl(req) \o " not found", {}, <<>>)

\* The middleware and the routes of the app, in the order they are registered.
stack(st, nid, t, req) ==
    IF req.malformed
    THEN Outcome(st, nid, ParseFailed, <<>>)
    ELSE IF isPreflight(req)
    THEN Outcome(st, nid, Preflight, <<>>)
    ELSE IF req.path = "/api/posts" /\ postRoutes(st, nid, t, req).matched
    THEN postRoutes(st, nid, t, req).out
    ELSE IF req.path = "/health" /\ req.rest = <<>> /\ handles("GET", req)
    THEN Outcome(st, nid, health, <<>>)
    ELSE IF req.path = "/api" /\ req.rest = <<>> /\ handles("GET", req)
    THEN Outcome(st, nid, apiInfo, <<>>)
    ELSE Outcome(st, nid, RouteNotFound(req), <<>>)

\* The app answers a request; the answer to a HEAD request goes out without
\* its body.
app(st, nid, t, req) ==
    IF req.method = "HEAD" THEN NoBody(stack(st, nid, t, req)) ELSE stack(st, nid, t, req)

\* The requests of SpecRouter: every method on every path, matched or not.
Methods == {"GET", "POST", "PUT", "DELETE", "PATCH", "OPTIONS", "HEAD"}

RoutePaths == {"/api/posts", "/health", "/api", "/nowhere"}

Rests(cap) == {<<>>, <<1, 1>>} \cup {<<i>> : i \in ReqIds(cap)}

NoQuery == Query(Absent, Absent, Absent, Absent)

RouterBodies == {Body(TitleA, ContentA, AuthorA), Body(TitleB, Absent, Absent)}

Requests(cap, bodies) ==
    {Req(m, p, r, b, NoQuery, x) :
        m \in Methods, p \in RoutePaths, r \in Rests(cap), b \in bodies, x \in BOOLEAN}

\* The app handles a request to its response.
Serve(req, cap) ==
    Handle(app(store, nextId, now, req), IF req.rest = <<>> THEN BadId ELSE req.rest[1], cap)

\* Requests of every method and path, handled one after another.
NextRouter ==
    \E req \in Requests(MaxRouted, RouterBodies) : Serve(req, MaxRouted)

SpecRouter == Init /\ [][NextRouter]_vars

(* ------------------------- the constraints of a Post ------------------ *)

IsTrimmed(s) == s = <<>> \/ (s[1] # " " /\ s[Len(s)] # " ")

\* The constraint of a path on a trimmed length.
LengthOk(p, n) ==
    CASE p = "title" -> n >= TitleMinLen /\ n <= TitleMaxLen
      [] p = "content" -> n >= ContentMinLen
      [] p = "author" -> n >= AuthorMinLen /\ n <= AuthorMaxLen

\* A supplied value breaks its path's constraint: null, or a string whose
\* trimmed length is out of range (an empty one included).
Violates(p, v) == v.kind = "null" \/ (v.kind = "str" /\ ~LengthOk(p, Len(Trim(v.val))))

InBounds(body) ==
    \A p \in Paths : body[p].kind = "str" /\ LengthOk(p, Len(Trim(body[p].val)))

Messages(p) == {postSchema[p].required, postSchema[p].minmsg, postSchema[p].maxmsg}

(* -------------------------------- C1 ---------------------------------- *)

\* C1: in every reachable state every persisted Post has title, content and
\* author stored trimmed, with the title's length in [3,100], the content's at
\* least 10 and the author's in [2,50].
C1_PersistedPostsValid ==
    \A i \in DOMAIN store :
        \A p \in Paths : IsTrimmed(store[i][p]) /\ LengthOk(p, Len(store[i][p]))

\* An Update with a null, empty or blank title was refused while a Post with a
\* title of the greatest length is persisted.
C1_Witness ==
    /\ resp.op = "update" /\ resp.status = 400
    /\ postSchema.title.required \in resp.errors
    /\ \E i \in DOMAIN store : Len(store[i].title) = TitleMaxLen

(* -------------------------------- C2 ---------------------------------- *)

\* C2: for every Create input whose three fields are within the length bounds
\* after trimming, Create responds 201 with a Post whose fields are the trimmed
\* input and whose id is the id of no Post that exists or has ever existed.
C2_CreateEchoesWithFreshId ==
    \A body \in Bodies :
        InBounds(body) =>
            LET o == createPost(store, nextId, now, body) IN
            /\ o.resp.status = 201
            /\ Len(o.resp.data) = 1
            /\ \A p \in Paths : o.resp.data[1][p] = Trim(body[p].val)
            /\ o.resp.data[1].id \notin ever \cup DOMAIN store
            /\ DOMAIN o.store = DOMAIN store \cup {o.resp.data[1].id}
            /\ toJSON(o.resp.data[1].id, o.store[o.resp.data[1].id]) = o.resp.data[1]
            /\ \A j \in DOMAIN store : o.store[j] = store[j]

\* A Create answered 201 after a Delete had removed a Post, with another id.
C2_Witness ==
    /\ resp.op = "create" /\ resp.status = 201
    /\ deleted # {}
    /\ resp.data[1].id \notin deleted
    /\ resp.data[1].title = Rep("b", TitleMaxLen)

(* -------------------------------- C3 ---------------------------------- *)

\* What a successful Update of post id leaves alone, and what it writes.
UpdateFrame(o, id, body) ==
    /\ DOMAIN o.store = DOMAIN store
    /\ \A j \in DOMAIN store \ {id} : o.store[j] = store[j]
    /\ o.resp.data[1].id = id
    /\ o.store[id].createdAt = store[id].createdAt
    /\ \A p \in Paths :
          o.store[id][p] = IF body[p].kind = "absent" THEN store[id][p]
                           ELSE Trim(body[p].val)

\* C3 as claimed: a successful Update changes only the fields present in the
\* input, keeps the id and createdAt, modifies no other Post, and updatedAt
\* strictly increases.
C3_UpdatedAtStrictlyIncreases ==
    \A id \in DOMAIN store, body \in Bodies :
        LET o == updatePost(store, nextId, now, id, body) IN
        o.resp.status = 200 =>
            /\ UpdateFrame(o, id, body)
            /\ o.store[id].updatedAt > store[id].updatedAt

\* C3 as amended: a successful Update changes only the fields present in the
\* input, keeps the id and createdAt, modifies no other Post, and sets
\* updatedAt to the clock's reading when the Update is handled.
C3_UpdateChangesOnlyGivenFields ==
    \A id \in DOMAIN store, body \in Bodies :
        LET o == updatePost(store, nextId, now, id, body) IN
        o.resp.status = 200 =>
            /\ UpdateFrame(o, id, body)
            /\ o.store[id].updatedAt = now

\* An Update of one of two Posts has succeeded, at a later time than the Post
\* was created.
C3_Witness ==
    /\ resp.op = "update" /\ resp.status = 200
    /\ Cardinality(DOMAIN store) = 2
    /\ resp.data[1].updatedAt > resp.data[1].createdAt

(* -------------------------------- C4 ---------------------------------- *)

RefusedId(o, op) == o.resp = InvalidId(op) /\ o.access = <<>> /\ o.store = store

\* C4: GetById, Update and Delete with a syntactically invalid id respond 400
\* (invalid id) with no store call made and the store unchanged; for Update
\* whatever the body holds.
C4_InvalidIdRefusedBeforeStore ==
    /\ RefusedId(getPostById(store, nextId, BadId), "get")
    /\ RefusedId(deletePost(store, nextId, BadId), "delete")
    /\ \A body \in Bodies : RefusedId(updatePost(store, nextId, now, BadId, body), "update")

\* An Update naming a malformed id has been refused while a Post is persisted.
C4_Witness ==
    /\ resp = InvalidId("update")
    /\ access = <<>>
    /\ store # <<>>

(* -------------------------------- C5 ---------------------------------- *)

MissingOrEmpty(v) == v.kind = "absent" \/ (v.kind = "str" /\ v.val = <<>>)

\* C5: for every Create input in which one of title, content, author is missing
\* or empty, the response is 400 with the missing-field message, no insert is
\* attempted and the persisted Posts are unchanged.
C5_MissingFieldRefused ==
    \A body \in Bodies :
        (\E p \in Paths : MissingOrEmpty(body[p])) =>
            LET o == createPost(store, nextId, now, body) IN
            /\ o.resp = MissingFields
            /\ o.resp.status = 400
            /\ o.access = <<>>
            /\ o.store = store
            /\ o.nextId = nextId

\* A Create with a field missing has been refused while a Post is persisted.
C5_Witness ==
    /\ resp = MissingFields
    /\ access = <<>>
    /\ store # <<>>

(* -------------------------------- C6 ---------------------------------- *)

\* The response to a body whose fields vs break their constraints: 400,
\* validation failed, one message per field of vs, each one of that field's.
RefusedInvalid(o, body, vs) ==
    /\ o.resp.status = 400
    /\ o.resp.message = "Validation failed"
    /\ Cardinality(o.resp.errors) = Cardinality(vs)
    /\ \A p \in vs : \E m \in o.resp.errors : m \in Messages(p)
    /\ o.access = <<>>
    /\ o.store = store
    /\ o.nextId = nextId

C9_DeletedIdAlways404 ==
    \A i \in deleted :
        /\ getPostById(store, nextId, i).resp.status = 404
        /\ deletePost(store, nextId, i).resp.status = 404
        /\ \A body \in Bodies : updatePost(store, nextId, now, i, body).resp.status = 404

\* C9 as amended: after a Delete of id i has responded 200 the Post is in no
\* later state of the store; every later GetById or Delete on i responds 404,
\* and every later Update on i responds 404 when its body passes the checks
\* made before the store is reached, 400 otherwise, never 200.
C9_DeletedIdNeverFound ==
    \A i \in deleted :
        /\ i \notin DOMAIN store
        /\ getPostById(store, nextId, i).resp = NotFound("get")
        /\ deletePost(store, nextId, i).resp = NotFound("delete")
        /\ \A body \in Bodies :
              LET o == updatePost(store, nextId, now, i, body) IN
              /\ o.store = store
              /\ o.resp.status =
                    IF updateData(body) # {} /\ \A p \in Paths : ~Violates(p, body[p])
                    THEN 404 ELSE 400

\* A GetById on a deleted id has responded 404 while a Post created since is
\* persisted.
C9_Witness ==
    /\ resp = NotFound("get")
    /\ access = <<Call("findOne", 1)>>
    /\ 1 \in deleted
    /\ store # <<>>

(* -------------------------------- C7 ---------------------------------- *)

IdsOf(data) == [k \in 1..Len(data) |-> data[k].id]

\* The records at positions m..n of a sequence, as far as it has them.
Positions(all, m, n) ==
    LET lo == IF m < 1 THEN 1 ELSE m
        hi == IF n > Len(all) THEN Len(all) ELSE n
    IN  IF lo > hi THEN <<>> ELSE SubSeq(all, lo, hi)

PageParam(k) == Str(<<Digits[k + 1]>>)

\* The ids returned for pages k..n of query q, one page after the other.
RECURSIVE ConcatPages(_, _, _)
ConcatPages(q, k, n) ==
    IF k > n THEN <<>>
    ELSE IdsOf(getAllPosts(store, nextId, [q EXCEPT !.page = PageParam(k)]).resp.data)
         \o ConcatPages(q, k + 1, n)

\* What C7 says of the response to query q.
Paginated(q) ==
    LET o == getAllPosts(store, nextId, q)
        all == Sorted(store, Matching(store, q))
        N == Len(all)
        L == limitOf(q)
        p == pageOf(q)
    IN  /\ o.resp.status = 200
        /\ o.resp.total = N
        /\ o.resp.pages = Ceil(N, L)
        /\ IdsOf(o.resp.data) = Positions(all, (p - 1) * L + 1, p * L)
        /\ ConcatPages(q, 1, o.resp.pages) = all

\* C7: with N Posts matching the filter and limit L, every List response
\* reports total = N and pages = ceil(N/L), page p returns the records at
\* positions (p-1)*L+1 .. p*L of the createdAt-descending ordering, and pages
\* 1..pages one after the other are that ordering, nothing twice or left out.
C7_PagesPartitionTheResult == \A q \in Queries : Paginated(q)

\* The same for the queries whose page and limit parse to positive numbers.
PositivePagesPartitionTheResult ==
    \A q \in Queries :
        (~parseInt(q.page).nan /\ parseInt(q.page).n >= 1
         /\ ~parseInt(q.limit).nan /\ parseInt(q.limit).n >= 1) => Paginated(q)

(* -------------------------------- C8 ---------------------------------- *)

\* C8: for every value of the page and limit parameters List uses a page and a
\* limit that are both at least 1, so that the skip is never negative, and
\* responds 200.
C8_PageAndLimitPositive ==
    \A q \in Queries :
        /\ pageOf(q) >= 1
        /\ limitOf(q) >= 1
        /\ skipOf(q) >= 0
        /\ getAllPosts(store, nextId, q).resp.status = 200

(* -------------------------------- C10 --------------------------------- *)

\* A document with the whole of an update written over it.
Overlaid(doc, u) ==
    [title     |-> IF u.body.title.kind = "absent" THEN doc.title ELSE Trim(u.body.title.val),
     content   |-> IF u.body.content.kind = "absent" THEN doc.content
                   ELSE Trim(u.body.content.val),
     author    |-> IF u.body.author.kind = "absent" THEN doc.author
                   ELSE Trim(u.body.author.val),
     createdAt |-> doc.createdAt,
     updatedAt |-> u.t]

\* C10: when Updates of one Post overlap, each is applied to the store in one
\* step: a step that changes a persisted Post is the commit of one Update in
\* flight on it, and leaves the Post as it was just before with all the fields
\* of that Update written (so the Post is what the last commit made of it).
C10_UpdatesApplyWholeLastWins ==
    [][\A i \in DOMAIN store \cap DOMAIN store' :
          store'[i] # store[i] =>
              \E u \in BagToSet(inflight) :
                  /\ u.id = i
                  /\ inflight' = inflight (-) SetToBag({u})
                  /\ store'[i] = Overlaid(store[i], u)]_vars

\* An Update has been committed while another one on the same Post, which
\* started before it, is still in flight.
C10_Witness ==
    /\ resp.op = "update" /\ resp.status = 200
    /\ \E u \in BagToSet(inflight) :
          /\ u.id = resp.data[1].id
          /\ u.t < resp.data[1].updatedAt
          /\ u.body.title # Absent
          /\ resp.data[1].title # Trim(u.body.title.val)

(* -------------------------------- C11 --------------------------------- *)

\* An Update leaves the createdAt of the Post it changes as it was.
CreatedAtNeverChanges ==
    [][\A i \in DOMAIN store \cap DOMAIN store' :
          store'[i].createdAt = store[i].createdAt]_vars

\* C11: every persisted Post has createdAt <= updatedAt, and the createdAt of
\* a Post never changes once the Post is created.
C11_CreatedAtFixedNotAfterUpdatedAt ==
    /\ [](\A i \in DOMAIN store : store[i].createdAt <= store[i].updatedAt)
    /\ CreatedAtNeverChanges

(* -------------------------------- C12 --------------------------------- *)

\* The handlers the interface defines: the method, the path and the number of
\* ids after it.
DefinedRoutes ==
    {<<"POST", "/api/posts", 0>>, <<"GET", "/api/posts", 0>>, <<"GET", "/api/posts", 1>>,
     <<"PUT", "/api/posts", 1>>, <<"DELETE", "/api/posts", 1>>,
     <<"GET", "/health", 0>>, <<"GET", "/api", 0>>}

Defined(method, req) == <<method, req.path, Len(req.rest)>> \in DefinedRoutes

AllRequests == Requests(MaxRouted, ThinBodies)

\* C12 as stated: every request whose method and path match no defined
\* handler, of whatever method, is answered 404 with the message
\* "Route <method> <path> not found".
C12_UnmatchedRouteGets404 ==
    \A req \in AllRequests :
        ~Defined(req.method, req) =>
            app(store, nextId, now, req).resp = RouteNotFound(req)

\* C12 amended: of the requests whose body parses, an OPTIONS request is
\* answered 200 whatever its path; a request of another method than OPTIONS and
\* HEAD that matches no defined handler is answered 404 with the message
\* "Route <method> <path> not found" and reaches no store; a HEAD request is
\* matched as a GET and answered without a body, 404 when no GET handler
\* matches; no request that matches a defined handler is answered by the 404
\* handler. A request whose body does not parse is answered 400.
C12_UnmatchedRouteGets404UnlessPreflight ==
    \A req \in AllRequests :
        LET o == app(store, nextId, now, req)
            matchedAs == IF req.method = "HEAD" THEN "GET" ELSE req.method
        IN  /\ req.malformed => o.resp.status = 400 /\ o.store = store
            /\ ~req.malformed /\ req.method = "OPTIONS" =>
                   o.resp = Preflight /\ o.store = store /\ o.access = <<>>
            /\ ~req.malformed /\ req.method \notin {"OPTIONS", "HEAD"}
                   /\ ~Defined(req.method, req) =>
                   o.resp = RouteNotFound(req) /\ o.store = store /\ o.access = <<>>
            /\ ~req.malformed /\ req.method = "HEAD" /\ ~Defined("GET", req) =>
                   /\ o.resp.op = "notFound" /\ o.resp.status = 404
                   /\ o.resp.message = "" /\ o.store = store /\ o.access = <<>>
            /\ ~req.malformed /\ req.method # "OPTIONS" /\ Defined(matchedAs, req) =>
                   o.resp.op # "notFound"

\* A PATCH of a stored Post, which no route handles, has been answered 404.
C12_Witness ==
    /\ 1 \in DOMAIN store
    /\ resp.op = "notFound" /\ resp.status = 404
    /\ resp.message = "Route PATCH /api/posts/1 not found"

(* -------------------------------- C13 --------------------------------- *)

\* The text contains the substring, letter case set aside.
Contains(sub, text) ==
    \E k \in 0..(Len(text) - Len(sub)) :
        \A j \in 1..Len(sub) : Lower(sub[j]) = Lower(text[k + j])

\* The Posts that satisfy every filter the query supplies.
Satisfying(q) ==
    {i \in DOMAIN store :
        /\ q.author.kind = "str" => Contains(q.author.val, store[i].author)
        /\ q.search.kind = "str" =>
               Contains(q.search.val, store[i].title) \/ Contains(q.search.val, store[i].content)}

\* List with query q finds exactly the Posts satisfying the filters of q: it
\* counts them in total, returns none but them, and returns them all on the
\* first page when they fit on it.
SelectsSatisfying(q) ==
    LET r == getAllPosts(store, nextId, q).resp
        returned == {r.data[k].id : k \in 1..Len(r.data)}
    IN  r.status = 200 =>
            /\ r.total = Cardinality(Satisfying(q))
            /\ returned \subseteq Satisfying(q)
            /\ (q.page = Absent /\ q.limit = Absent
                   /\ Cardinality(Satisfying(q)) <= DefaultLimit) => returned = Satisfying(q)

\* C13: List returns exactly the Posts whose author contains the author
\* parameter and whose title or content contains the search parameter, letter
\* case set aside, each filter applied only when its parameter is given.
C13_ListReturnsExactlyTheFiltered ==
    \A q \in Queries : SelectsSatisfying(q)

\* The same for the parameters in which no character is special in a regular
\* expression.
IsLiteral(v) == v.kind # "str" \/ \A j \in 1..Len(v.val) : v.val[j] # "."

LiteralFiltersSelectSatisfying ==
    \A q \in Queries : IsLiteral(q.author) /\ IsLiteral(q.search) => SelectsSatisfying(q)

(* -------------------------------- C14 --------------------------------- *)

NoFields == Response("update", 400, "No fields provided for update", {}, <<>>)

\* A field given as null or as the empty string.
NullOrEmpty(v) == v = Null \/ v = Str(<<>>)

\* C14: an Update with a well-formed id and a body without title, content and
\* author is answered 400 "No fields provided for update" without a call to the
\* store, whether a Post with that id exists or not; a field given as null or
\* empty counts as given: the Update is not answered "No fields", the field
\* goes to validation and the Update is refused there.
C14_NoFieldsRefusedBeforeLookup ==
    \A id \in 1..(MaxValidated + 1), body \in Bodies :
        LET o == updatePost(store, nextId, now, id, body)
        IN  /\ (\A p \in Paths : body[p] = Absent) =>
                   o.resp = NoFields /\ o.store = store /\ o.access = <<>>
            /\ (\E p \in Paths : body[p] # Absent) => o.resp # NoFields
            /\ \A p \in Paths : NullOrEmpty(body[p]) =>
                   /\ o.resp.status = 400 /\ o.resp.message = "Validation failed"
                   /\ postSchema[p].required \in o.resp.errors
                   /\ o.store = store /\ o.access = <<>>

\* An Update without fields has been refused while no Post is stored, so that
\* the id it named is the id of no Post.
C14_Witness ==
    /\ resp = NoFields
    /\ store = <<>>
    /\ access = <<>>

(* -------------------------------- C15 --------------------------------- *)

CountIsReturned(r) == r.count = Len(r.data)

PagesIsCeil(r, q) == r.pages = Ceil(r.total, limitOf(q))

\* The values a List response with query q reports agree with each other.
Consistent(r, q) ==
    /\ CountIsReturned(r)
    /\ r.count <= limitOf(q)
    /\ r.count <= r.total
    /\ PagesIsCeil(r, q)

\* C15: every List response reports values that agree with each other, also
\* when Creates and Deletes land between its find and its count: count is the
\* number of posts returned, count <= limit, count <= total and
\* pages = ceil(total / limit).
C15_ListResponseConsistent ==
    \A l \in listing :
        Consistent(countAndRespond(store, nextId, l.q, l.posts).resp, l.q)

\* What holds of every List response: count is the number of posts returned
\* and pages = ceil(total / limit).
ListCountAndPagesAgree ==
    \A l \in listing :
        LET r == countAndRespond(store, nextId, l.q, l.posts).resp
        IN  CountIsReturned(r) /\ PagesIsCeil(r, l.q)

(* -------------------------------- C16 --------------------------------- *)

\* The step is the commit of the Update u in flight.
Commits(u) == BagIn(u, inflight) /\ inflight' = inflight (-) SetToBag({u})

\* C16: however an Update and a Delete of the same id interleave, the Update
\* does not bring the Post back: an Update that reaches the store after the
\* Delete has committed is answered 404 and leaves the store as it is, a
\* deleted Post is in no later state of the store, and an id comes into the
\* store only by a Create answered 201, under an id never used before.
C16_UpdateNeverRecreates ==
    /\ [](\A i \in deleted : i \notin DOMAIN store)
    /\ [][\A u \in BagToSet(inflight) :
             Commits(u) /\ u.id \in deleted =>
                 resp' = NotFound("update") /\ store' = store]_vars
    /\ [][DOMAIN store' \subseteq DOMAIN store
          \/ /\ resp'.op = "create" /\ resp'.status = 201
             /\ DOMAIN store' = DOMAIN store \cup {resp'.data[1].id}
             /\ resp'.data[1].id \notin ever]_vars

\* The Delete of a Post has committed and been answered 200 while an Update of
\* the same Post, sent before, has yet to reach the store.
C16_Witness ==
    /\ resp.op = "delete" /\ resp.status = 200
    /\ access = <<Call("findOneAndDelete", 1)>>
    /\ 1 \in deleted
    /\ \E u \in BagToSet(inflight) : u.id = 1

====
